---------------------------- MODULE Spec2Model ----------------------------
(***************************************************************************)
(* Model of SBic::compute (src/src/algorithms/highlevel/sbic.cpp): the     *)
(* three-pass BIC segmentation of a feature matrix, with its helpers       *)
(* subarray, logDet, bicChangeSearch and delta_bic.                        *)
(*                                                                         *)
(* Numbers.  Real is modelled in fixed point: a Real r is the integer      *)
(* 10^6 * r.  Feature values are small integers, so the diagonal           *)
(* covariance of a window is the exact rational (n*vp - mp^2) / n^2 and    *)
(* its logarithm is LogFix(n*vp - mp^2) - 2*LogFix(n), where LogFix reads  *)
(* a table of natural logarithms.  The table is additive over products     *)
(* (LogFix(a*b) = LogFix(a) + LogFix(b)), so a differential that is 0 in   *)
(* exact arithmetic is 0 in the model, and every entry is even, so the     *)
(* factor 0.5 of the BIC differential is an exact division by two.  The    *)
(* penalty weight cpw is held in halves (cpw2 = 2 * cpw).                  *)
(*                                                                         *)
(* Matrices are sequences of rows, rows are sequences of values; the       *)
(* code's indices are 0-based and are shifted by one at each access.       *)
(* The input matrices have one feature row whose first frame is 0: the     *)
(* searches read the frames through covariances only, which a shift of     *)
(* every value leaves as they are.                                         *)
(***************************************************************************)
EXTENDS Integers, Sequences, FiniteSets, TLC

\* ------------------------------------------------------------- bounds
\* frames of the matrix of a call
MaxFrames == 6
\* largest feature value
MaxVal == 1
\* largest size1, inc1, size2, and 2 * cpw
MaxSize1 == 2
MaxInc1 == 2
MaxSize2 == 2
MaxCpw2 == 1
\* frames of the matrices of the first and the second call of an instance
\* that is called twice
MaxFramesFirst == 4
MaxFramesAgain == 3
\* frames of the matrix when the validation pass is run twice
MaxFramesV == 8

\* --------------------------------------------------- program constants
\* numeric_limits<Real>::max()
RealMax == 2000000000
\* the floor -5 of log(diag_cov), in millionths
LogFloor == -5000000
\* diag_cov > 1e-5, as diag_cov * CovThresholdInv > 1
CovThresholdInv == 100000

\* what log() of 0 gives (-inf); NaN compares like it in "> 0"
NegInf == -RealMax

LogTable ==
  << 
     0, 693148, 1098612, 1386296, 1609438, 1791760, 1945910, 2079444, 2197224, 2302586,
     2397896, 2484908, 2564950, 2639058, 2708050, 2772592, 2833214, 2890372, 2944438, 2995734,
     3044522, 3091044, 3135494, 3178056, 3218876, 3258098, 3295836, 3332206, 3367296, 3401198,
     3433988, 3465740, 3496508, 3526362, 3555348, 3583520, 3610918, 3637586, 3663562, 3688882,
     3713572, 3737670, 3761200, 3784192, 3806662, 3828642, 3850148, 3871204, 3891820, 3912024,
     3931826, 3951246, 3970292, 3988984, 4007334, 4025354, 4043050, 4060444, 4077538, 4094346,
     4110874, 4127136, 4143134, 4158888, 4174388, 4189656, 4204692, 4219510, 4234106, 4248496,
     4262680, 4276668, 4290460, 4304066, 4317488, 4330734, 4343806, 4356710, 4369448, 4382030,
     4394448, 4406720, 4418840, 4430818, 4442652, 4454348, 4465908, 4477340, 4488636, 4499810,
     4510860, 4521790, 4532600, 4543296, 4553876, 4564352, 4574710, 4584968, 4595120, 4605172,
     4615120, 4624974, 4634728, 4644394, 4653960, 4663440, 4672828, 4682132, 4691348, 4700482,
     4709530, 4718502, 4727388, 4736198, 4744932, 4753592, 4762174, 4770686, 4779124, 4787494,
     4795792, 4804022, 4812184, 4820284, 4828314, 4836282, 4844188, 4852036, 4859812, 4867536,
     4875198, 4882804, 4890348, 4897840, 4905274, 4912658, 4919980, 4927254, 4934474, 4941644,
     4948760, 4955828, 4962846, 4969816, 4976734, 4983608, 4990432, 4997214, 5003946, 5010636,
     5017280, 5023882, 5030438, 5036954, 5043426, 5049858, 5056246, 5062596, 5068904, 5075178,
     5081404, 5087596, 5093750, 5099868, 5105946, 5111988, 5117994, 5123966, 5129900, 5135800,
     5141662, 5147496, 5153292, 5159056, 5164786, 5170488, 5176150, 5181784, 5187386, 5192958,
     5198498, 5204008, 5209486, 5214938, 5220356, 5225748, 5231110, 5236444, 5241746, 5247024,
     5252274, 5257500, 5262690, 5267858, 5273000, 5278116, 5283204, 5288268, 5293304, 5298320,
     5303304, 5308268, 5313206, 5318122, 5323010, 5327876, 5332718, 5337542, 5342334, 5347108,
     5351858, 5356588, 5361292, 5365976, 5370638, 5375280, 5379898, 5384496, 5389072, 5393630,
     5398164, 5402678, 5407172, 5411650, 5416100, 5420536, 5424950, 5429346, 5433722, 5438080,
     5442418, 5446740, 5451038, 5455322, 5459586, 5463834, 5468060, 5472272, 5476464, 5480642,
     5484796, 5488940, 5493060, 5497170, 5501258, 5505332, 5509388, 5513432, 5517452, 5521462,
     5525452, 5529430, 5533390, 5537336, 5541264, 5545184, 5549076, 5552960, 5556828, 5560684,
     5564520, 5568346, 5572154, 5575952, 5579730, 5583496, 5587248, 5590988, 5594712, 5598422,
     5602118, 5605806, 5609472, 5613128, 5616772, 5620402, 5624018, 5627622, 5631212, 5634792,
     5638354, 5641908, 5645446, 5648976, 5652488, 5655994, 5659482, 5662964, 5666428, 5669882,
     5673322, 5676756, 5680172, 5683580, 5686976, 5690362, 5693732, 5697094, 5700444, 5703784,
     5707110, 5710428, 5713732, 5717030, 5720312, 5723586, 5726848, 5730102, 5733340, 5736574,
     5739792, 5743006, 5746204, 5749394, 5752572, 5755744, 5758902, 5762052, 5765192, 5768326,
     5771440, 5774552, 5777652, 5780744, 5783826, 5786898, 5789960, 5793016, 5796058, 5799094,
     5802118, 5805136, 5808142, 5811142, 5814130, 5817114, 5820082, 5823048, 5826000, 5828948,
     5831884, 5834810, 5837730, 5840644, 5843544, 5846440, 5849324, 5852204, 5855072, 5857934,
     5860786, 5863636, 5866468, 5869298, 5872118, 5874932, 5877736, 5880534, 5883322, 5886106,
     5888876, 5891646, 5894404, 5897156, 5899898, 5902634, 5905362, 5908086, 5910796, 5913504,
     5916202, 5918896, 5921578, 5924258, 5926926, 5929592, 5932246, 5934894, 5937536, 5940172,
     5942800, 5945422, 5948034, 5950648, 5953244, 5955838, 5958424, 5961006, 5963580, 5966148,
     5968708, 5971264, 5973810, 5976352, 5978886, 5981416, 5983936, 5986452, 5988960, 5991468
  >>

\* log(n) in millionths, n >= 1
LogFix(n) == LogTable[n]

Min(a, b) == IF a < b THEN a ELSE b
Max(a, b) == IF a > b THEN a ELSE b

\* ------------------------------------------------------------ matrices
dim1(m) == Len(m)
dim2(m) == IF Len(m) = 0 THEN 0 ELSE Len(m[1])

\* subarray(matrix, i0, i1, j0, j1): the empty matrix when a dimension is
\* below 1, else the copy of rows i0..i1, columns j0..j1.
subarray(matrix, i0, i1, j0, j1) ==
  LET d1 == i1 - i0 + 1
      d2 == j1 - j0 + 1
  IN  IF d1 < 1 \/ d2 < 1 THEN << >>
      ELSE [r \in 1..d1 |-> [c \in 1..d2 |-> matrix[r + i0][c + j0]]]

\* subarray reads matrix[i+i0][j+j0] for every i < dim1, j < dim2: the read
\* is outside the matrix when the range is not inside it.
subarrayOutOfBounds(matrix, i0, i1, j0, j1) ==
  LET d1 == i1 - i0 + 1
      d2 == j1 - j0 + 1
  IN  /\ d1 >= 1
      /\ d2 >= 1
      /\ \/ i0 < 0
         \/ i1 > dim1(matrix) - 1
         \/ j0 < 0
         \/ j1 > dim2(matrix) - 1

RECURSIVE SumSeq(_)
SumSeq(s) == IF s = << >> THEN 0 ELSE Head(s) + SumSeq(Tail(s))

\* the term one feature row adds to logd
logDiag(row) ==
  LET n == Len(row)
      mp == SumSeq(row)
      vp == SumSeq([c \in 1..n |-> row[c] * row[c]])
      num == n * vp - mp * mp
  IN  IF num * CovThresholdInv > n * n
        THEN LogFix(num) - 2 * LogFix(n)
        ELSE LogFloor

\* logDet(matrix): the sum over the feature rows; 0 for the empty matrix
logDet(matrix) == SumSeq([r \in 1..dim1(matrix) |-> logDiag(matrix[r])])

\* --------------------------------------------------------------- state
VARIABLES
  features,      \* _features: the input matrix of the running call
  size1,         \* _size1
  inc1,          \* _inc1
  size2,         \* _size2
  cpw2,          \* 2 * _cpw
  cp,            \* _cp
  segmentation,  \* _segmentation: the caller's output vector
  segValues,     \* _segValues
  bicValues,     \* _bicValues
  currSeg, endSeg, i, dmin, currIdx,   \* locals of compute
  pc,            \* position in compute
  runs,          \* number of compute calls made on the instance
  search,        \* the last bicChangeSearch call: current, result, curve
  reads,         \* indices read from the curve by the last Pass 1 step
  win,           \* the window handed to the last Pass 1 search
  pre,           \* the three outputs as they were when compute was called
  recorded,      \* the <<frame index, BIC value>> pairs as they were written
  removed,       \* entries erased from the segmentation during this call
  firstOut       \* the segmentation a first validation pass returned

vars == << features, size1, inc1, size2, cpw2, cp, segmentation, segValues,
           bicValues, currSeg, endSeg, i, dmin, currIdx, pc, runs, search,
           reads, win, pre, recorded, removed, firstOut >>

config == << size1, inc1, size2, cpw2 >>
outputs == << segmentation, segValues, bicValues >>
locals == << currSeg, endSeg, i, dmin, currIdx >>

nFeatures == dim1(features)
nFrames == dim2(features)

\* ------------------------------------------------------ BIC differential
\* penalty = _cpw * _cp * log(Real(nFrames))
Penalty(n) == IF n < 1 THEN NegInf ELSE (cpw2 * cp * LogFix(n)) \div 2

\* the loop on all mid positions of bicChangeSearch
RECURSIVE searchLoop(_, _, _, _, _, _)
searchLoop(matrix, inc, shift, seg, dm, d) ==
  LET nFeat == dim1(matrix)
      nFr == dim2(matrix)
  IN  IF ~(shift < nFr - inc) THEN [seg |-> seg, dmin |-> dm, d |-> d]
      ELSE LET n1 == shift + 1
               s1 == logDet(subarray(matrix, 0, nFeat - 1, 0, shift))
               n2 == nFr - n1
               s2 == logDet(subarray(matrix, 0, nFeat - 1, shift + 1, nFr - 1))
               dBicValue ==
                 (n1 * s1 + n2 * s2 - nFr * logDet(matrix) + Penalty(nFr)) \div 2
           IN  IF dBicValue < dm
                 THEN searchLoop(matrix, inc, shift + inc, shift, dBicValue,
                                 Append(d, dBicValue))
                 ELSE searchLoop(matrix, inc, shift + inc, seg, dm,
                                 Append(d, dBicValue))

\* the search returning the offset inside the window, not the frame index
bicChangeSearchLocalOffset(matrix, inc, current) ==
  LET r == searchLoop(matrix, inc, inc - 1, 0, RealMax, << >>)
  IN  [first |-> IF r.dmin > 0 THEN 0 ELSE r.seg,
       second |-> r.d,
       dmin |-> r.dmin]

\* bicChangeSearch(matrix, inc, current, dmin): first is the change point
\* (0 for none), second the differential curve, dmin the out-parameter.
bicChangeSearch(matrix, inc, current) ==
  LET r == searchLoop(matrix, inc, inc - 1, 0, RealMax, << >>)
  IN  [first |-> IF r.dmin > 0 THEN 0 ELSE current + r.seg,
       second |-> r.d,
       dmin |-> r.dmin]

\* delta_bic(matrix, segPoint)
delta_bic(matrix, segPoint) ==
  LET nFeat == dim1(matrix)
      nFr == dim2(matrix)
      s == logDet(matrix)
      s1 == logDet(subarray(matrix, 0, nFeat - 1, 0, segPoint))
      s2 == logDet(subarray(matrix, 0, nFeat - 1, segPoint + 1, nFr - 1))
  IN  IF nFr < 1 THEN NegInf
      ELSE (segPoint * s1 + (nFr - segPoint) * s2 - nFr * s + Penalty(nFr)) \div 2

\* delta_bic reads outside its window when a half is not inside it
delta_bicOutOfBounds(matrix, segPoint) ==
  LET nFeat == dim1(matrix)
      nFr == dim2(matrix)
  IN  \/ subarrayOutOfBounds(matrix, 0, nFeat - 1, 0, segPoint)
      \/ subarrayOutOfBounds(matrix, 0, nFeat - 1, segPoint + 1, nFr - 1)

\* ------------------------------------------------------------- helpers
\* if (endSeg >= nFrames) endSeg = nFrames-1
ClipEnd(e, n) == IF e >= n THEN n - 1 ELSE e

\* vector::erase(begin() + k), k counted from 0
Erase(s, k) == [j \in 1..(Len(s) - 1) |-> IF j <= k THEN s[j] ELSE s[j + 1]]

\* operator[] on a vector, k counted from 0
At(s, k) == s[k + 1]

\* s with element k (from 0) replaced by v
Put(s, k, v) == [s EXCEPT ![k + 1] = v]

\* what a read outside a vector can return: any Real.  The value read only
\* ever reaches BicValues; two values stand for all of them.
Garbage == {0, RealMax}

\* ---------------------------------------------------------------- inputs
\* the feature matrices of at most maxN frames
Matrices(maxN) ==
  {<< << 0 >> \o rest >> :
     rest \in UNION {[1..n -> 0..MaxVal] : n \in 0..(maxN - 1)}}

NoSearch == [valid |-> FALSE, current |-> 0, first |-> 0, second |-> << >>,
             dmin |-> 0, nFrames |-> 0, inc |-> 0]
NoReads == [idx |-> << >>, len |-> 0]
NoWin == [valid |-> FALSE, lo |-> 0, hi |-> 0, grown |-> FALSE]
NoFirst == [done |-> FALSE, seg |-> << >>]

\* configure(), then the instance waits for its first compute call
Init ==
  /\ size1 \in 1..MaxSize1
  /\ inc1 \in 1..MaxInc1
  /\ size2 \in 1..MaxSize2
  /\ cpw2 \in 0..MaxCpw2
  /\ features = << >>
  /\ cp = 0
  /\ segmentation = << >>
  /\ segValues = << >>
  /\ bicValues = << >>
  /\ currSeg = 0 /\ endSeg = 0 /\ i = 0 /\ dmin = 0 /\ currIdx = 0
  /\ pc = "idle"
  /\ runs = 0
  /\ search = NoSearch
  /\ reads = NoReads
  /\ win = NoWin
  /\ pre = << << >>, << >>, << >> >>
  /\ recorded = << >>
  /\ removed = 0
  /\ firstOut = NoFirst

\* the caller binds a feature matrix of at most maxN frames and calls
\* compute: lines 221-231
CallWith(maxN) ==
  /\ features' \in Matrices(maxN)
  /\ runs' = runs + 1
  /\ pre' = outputs
  /\ currSeg' = 0 /\ endSeg' = 0 /\ i' = 0 /\ dmin' = 0 /\ currIdx' = 0
  /\ search' = NoSearch /\ reads' = NoReads /\ win' = NoWin
  /\ removed' = 0
  /\ pc' = "entry"
  /\ UNCHANGED << config, cp, outputs, recorded, firstOut >>

\* the call of compute on a configured instance
Call ==
  /\ pc = "idle"
  /\ CallWith(MaxFrames)

\* the first call of an instance that is called twice
CallShort ==
  /\ pc = "idle"
  /\ CallWith(MaxFramesFirst)

\* the second call, on the same output vectors, after the first returned or
\* threw
CallAgain ==
  /\ pc \in {"done", "error"}
  /\ runs = 1
  /\ CallWith(MaxFramesAgain)

\* the only call of an instance whose validation pass is then run again
CallOnce ==
  /\ pc = "idle"
  /\ CallWith(MaxFramesV)

\* the frame-count test with an off-by-one bound
TooFewFramesOffByOne(n) == n < 1

\* line 233: the frame-count test of compute
TooFewFrames(n) == n < 2

\* lines 233-244: the input check, _cp, endSeg = -1
Check ==
  /\ pc = "entry"
  /\ IF TooFewFrames(nFrames)
       THEN /\ pc' = "error"
            /\ UNCHANGED << cp, endSeg >>
       ELSE /\ cp' = 2 * nFeatures
            /\ endSeg' = -1
            /\ pc' = "pass1"
  /\ UNCHANGED << features, config, outputs, currSeg, i, dmin, currIdx, runs,
                  search, reads, win, pre, recorded, removed, firstOut >>

\* ----------------------------------------------------------------- pass 1
\* lines 251-255: the end of the window of this iteration
WindowEnd(e, size, n) == ClipEnd(e + size, n)

\* the next window sliding past this one when no change point was found
NextStartSliding(first, cur, e1, inc) == IF first # 0 THEN first + inc ELSE e1 + 1

\* lines 269-275: where the next window starts: inc frames past the change
\* point first, or where this one started when there is none (first = 0)
NextStart(first, cur, e1, inc) == IF first # 0 THEN first + inc ELSE cur

\* lines 278-284: the curve indices read after a change point was found
PeakReads(first, prevCurrSeg) ==
  LET nToAdd == first - prevCurrSeg + 1
  IN  [j \in 1..nToAdd |-> j - 1]

\* lines 292-295: the curve indices read when the window ends the matrix
EndReads(curveLen, cur) == [j \in 1..curveLen |-> j - 1 + cur]

\* a read of curve[k] is inside the vector
InCurve(curve, k) == 0 <= k /\ k < Len(curve)

\* the reads of idx that are made before the first one outside the curve
RECURSIVE ReadsBeforeFault(_, _)
ReadsBeforeFault(curve, idx) ==
  IF idx = << >> \/ ~InCurve(curve, Head(idx)) THEN << >>
  ELSE << At(curve, Head(idx)) >> \o ReadsBeforeFault(curve, Tail(idx))

\* the curve values a Pass 1 iteration appends to bicValues when the reads
\* idx are made and those outside the curve return g
Appended(curve, idx, faults, g) ==
  [k \in 1..Len(idx) |-> IF k \in faults THEN g[k] ELSE At(curve, idx[k])]

\* lines 264-296: what one coarse iteration does with the search result
\* res of the window currSeg..e1
Pass1Body(e1, res) ==
  LET curve == res.second
      found == res.first # 0
      newCurr == NextStart(res.first, currSeg, e1, inc1)
      newEnd == IF found THEN newCurr - 1 ELSE e1
  IN  /\ i' = res.first
      /\ dmin' = res.dmin
      /\ currSeg' = newCurr
      /\ endSeg' = newEnd
      /\ search' = [valid |-> TRUE, current |-> currSeg, first |-> res.first,
                    second |-> curve, dmin |-> res.dmin,
                    nFrames |-> e1 - currSeg + 1, inc |-> inc1]
      /\ win' = [valid |-> TRUE, lo |-> currSeg, hi |-> e1,
                 grown |-> win.valid /\ i = 0]
      /\ IF found
           THEN /\ segmentation' = Append(segmentation, res.first)
                /\ segValues' = Append(segValues, res.dmin)
                /\ recorded' = Append(recorded, << res.first, res.dmin >>)
           ELSE UNCHANGED << segmentation, segValues, recorded >>
      /\ \E idx \in {(IF found THEN PeakReads(res.first, currSeg) ELSE << >>)
                       \o (IF newEnd = nFrames - 1
                             THEN EndReads(Len(curve), newCurr) ELSE << >>)} :
         \E faults \in {{k \in 1..Len(idx) : ~InCurve(curve, idx[k])}} :
           /\ reads' = [idx |-> idx, len |-> Len(curve)]
           /\ \E fault \in (IF faults = {} THEN {FALSE} ELSE BOOLEAN) :
                IF fault
                  THEN /\ bicValues' = bicValues \o ReadsBeforeFault(curve, idx)
                       /\ pc' = "crashed"
                  ELSE /\ \E g \in [faults -> Garbage] :
                            bicValues' = bicValues \o Appended(curve, idx, faults, g)
                       /\ pc' = "pass1"

\* lines 249-297: one iteration of the coarse loop
Pass1Step ==
  /\ pc = "pass1"
  /\ endSeg < nFrames - 1
  /\ \E e1 \in {WindowEnd(endSeg, size1, nFrames)} :
     \E res \in {bicChangeSearch(
                   subarray(features, 0, nFeatures - 1, currSeg, e1),
                   inc1, currSeg)} :
       Pass1Body(e1, res)
  /\ UNCHANGED << features, config, cp, currIdx, runs, pre, removed, firstOut >>

\* lines 249, 308-309: the coarse loop ends, the fine pass is set up
Pass1Exit ==
  /\ pc = "pass1"
  /\ ~(endSeg < nFrames - 1)
  /\ currSeg' = 0
  /\ currIdx' = 0
  /\ pc' = "pass2"
  /\ UNCHANGED << features, config, cp, outputs, endSeg, i, dmin, runs,
                  search, reads, win, pre, recorded, removed, firstOut >>

\* ----------------------------------------------------------------- pass 2
\* line 331: the value the fine pass tests for "a change has been found".
\* The result of the fine search (res) is not assigned to i: the test reads
\* the i that Pass 1 left.
FineFound(res) == i

\* lines 331-357: what one fine iteration does after its search returned res
Pass2Body(c0, e0, res) ==
  LET p == FineFound(res)
      prevSeg == IF currIdx = 0 THEN 0 ELSE At(segmentation, currIdx - 1)
      nextSeg == IF currIdx + 1 >= Len(segmentation)
                   THEN nFrames - 1 ELSE At(segmentation, currIdx + 1)
  IN  /\ currSeg' = c0
      /\ endSeg' = e0
      /\ dmin' = res.dmin
      /\ search' = [valid |-> TRUE, current |-> c0, first |-> res.first,
                    second |-> res.second, dmin |-> res.dmin,
                    nFrames |-> Max(e0 - c0 + 1, 0), inc |-> inc1]
      /\ IF p # 0
           THEN IF prevSeg <= p /\ p <= nextSeg
                  THEN /\ IF p # At(segmentation, currIdx)
                            THEN /\ segmentation' = Put(segmentation, currIdx, p)
                                 /\ segValues' = Put(segValues, currIdx, res.dmin)
                                 /\ recorded' = Put(recorded, currIdx, << p, res.dmin >>)
                            ELSE UNCHANGED << segmentation, segValues, recorded >>
                       /\ currIdx' = currIdx + 1
                       /\ UNCHANGED removed
                  ELSE /\ segmentation' = Erase(segmentation, currIdx)
                       /\ segValues' = Erase(segValues, currIdx)
                       /\ recorded' = Erase(recorded, currIdx)
                       /\ removed' = removed + 1
                       /\ currIdx' = currIdx
           ELSE /\ UNCHANGED << segmentation, segValues, recorded, removed >>
                /\ currIdx' = currIdx + 1

\* lines 311-358: one iteration of the fine loop
Pass2Step ==
  /\ pc = "pass2"
  /\ currIdx < Len(segmentation)
  /\ \E c0 \in {Max(At(segmentation, currIdx) - size2 \div 2, 0)} :
     \E e0 \in {ClipEnd(c0 + size2 - 1, nFrames)} :
     \E res \in {bicChangeSearch(
                   subarray(features, 0, nFeatures - 1, c0, e0), inc1, c0)} :
       Pass2Body(c0, e0, res)
  /\ UNCHANGED << features, config, cp, bicValues, i, pc, runs, reads, win,
                  pre, firstOut >>

\* lines 368-375: compute returns when there is no change point, else the
\* validation loop is set up
EnterPass3 ==
  IF Len(segmentation) = 0
    THEN /\ pc' = "done"
         /\ UNCHANGED << currSeg, i >>
    ELSE /\ pc' = "pass3"
         /\ currSeg' = 0
         /\ i' = 1

\* line 311: the fine loop ends
Pass2Exit ==
  /\ pc = "pass2"
  /\ ~(currIdx < Len(segmentation))
  /\ EnterPass3
  /\ UNCHANGED << features, config, cp, outputs, endSeg, dmin, currIdx, runs,
                  search, reads, win, pre, recorded, removed, firstOut >>

\* ----------------------------------------------------------------- pass 3
\* line 379: the test that removes entry k
Unjustified(d) == d > 0

\* lines 377-379: what the validation test of entry i can come to.  A window
\* or a half that lies outside the matrix is read from foreign memory: the
\* test can go either way, or the read can fault.
Pass3Outcomes(e, segPoint) ==
  IF subarrayOutOfBounds(features, 0, nFeatures - 1, currSeg, e)
    THEN {"erase", "keep", "crash"}
    ELSE LET window == subarray(features, 0, nFeatures - 1, currSeg, e)
         IN  IF delta_bicOutOfBounds(window, segPoint)
               THEN {"erase", "keep", "crash"}
               ELSE IF Unjustified(delta_bic(window, segPoint))
                      THEN {"erase"} ELSE {"keep"}

\* the erase that forgets the BIC value of the entry
Pass3EraseIndexOnly(k) ==
  /\ segmentation' = Erase(segmentation, k)
  /\ segValues' = segValues
  /\ recorded' = Erase(recorded, k)

\* lines 381-383: entry k leaves both sequences
Pass3Erase(k) ==
  /\ segmentation' = Erase(segmentation, k)
  /\ segValues' = Erase(segValues, k)
  /\ recorded' = Erase(recorded, k)

\* lines 375-387: one iteration of the validation loop
Pass3Step ==
  /\ pc = "pass3"
  /\ i < Len(segmentation) - 1
  /\ endSeg' = At(segmentation, i + 1)
  /\ \E out \in Pass3Outcomes(At(segmentation, i + 1),
                              At(segmentation, i) - At(segmentation, i - 1)) :
       IF out = "erase"
         THEN /\ Pass3Erase(i)
              /\ removed' = removed + 1
              /\ UNCHANGED << i, currSeg, pc >>
         ELSE /\ UNCHANGED << segmentation, segValues, recorded, removed >>
              /\ IF out = "keep"
                   THEN /\ currSeg' = At(segmentation, i) + 1
                        /\ i' = i + 1
                        /\ pc' = "pass3"
                   ELSE /\ pc' = "crashed"
                        /\ UNCHANGED << i, currSeg >>
  /\ UNCHANGED << features, config, cp, bicValues, dmin, currIdx, runs,
                  search, reads, win, pre, firstOut >>

\* line 375: the validation loop ends and compute returns
Pass3Exit ==
  /\ pc = "pass3"
  /\ ~(i < Len(segmentation) - 1)
  /\ pc' = "done"
  /\ UNCHANGED << features, config, cp, outputs, locals, runs, search, reads,
                  win, pre, recorded, removed, firstOut >>

\* lines 368-388 entered once more, on the outputs compute returned
Revalidate ==
  /\ pc = "done"
  /\ ~firstOut.done
  /\ firstOut' = [done |-> TRUE, seg |-> segmentation]
  /\ EnterPass3
  /\ UNCHANGED << features, config, cp, outputs, endSeg, dmin, currIdx, runs,
                  search, reads, win, pre, recorded, removed >>

\* ------------------------------------------------------- specifications
\* the steps of a running compute
Steps ==
  \/ Check
  \/ Pass1Step
  \/ Pass1Exit
  \/ Pass2Step
  \/ Pass2Exit
  \/ Pass3Step
  \/ Pass3Exit

Next == Call \/ Steps

\* one call of compute on a configured instance
Spec == Init /\ [][Next]_vars

NextAgain == CallShort \/ CallAgain \/ Steps

\* an instance that is called twice, on the same output vectors
SpecAgain == Init /\ [][NextAgain]_vars


NextV == CallOnce \/ Steps \/ Revalidate

\* one call, then the validation pass once more on what it returned
SpecV == Init /\ [][NextV]_vars

\* ---------------------------------------------------------------- claims
Empty3 == << << >>, << >>, << >> >>
InCompute == pc \in {"pass1", "pass2", "pass3", "done"}

\* C1: a compute call on a matrix of fewer than 2 frames ends in the
\* invalid-input error without any pass having begun (no window searched),
\* and the three outputs are what they were when compute was called.
C1_ShortMatrixRejected ==
  (nFrames < 2 /\ pc \notin {"idle", "entry"}) =>
     /\ pc = "error"
     /\ outputs = pre
     /\ ~search.valid
     /\ ~win.valid

\* C1 witness: the error is raised on a call whose outputs already held a
\* change point of an earlier call.
C1_Witness == pc = "error" /\ runs = 2 /\ Len(pre[1]) > 0 /\ Len(pre[3]) > 0

\* C2 (as claimed): in a fine iteration the decision is the one of this
\* iteration's search: when it returns no change point the entry stays; when
\* it returns p inside [prev, next] the entry's frame index becomes p (and,
\* when p differs from the entry, its BIC value the search's dmin); when p
\* is outside, the entry leaves both sequences and the cursor stays on the
\* entry that shifted in.
C2_FineUsesOwnSearch ==
  [][(pc = "pass2" /\ currIdx < Len(segmentation)) =>
       LET p == search'.first
           prev == IF currIdx = 0 THEN 0 ELSE At(segmentation, currIdx - 1)
           next == IF currIdx + 1 >= Len(segmentation)
                     THEN nFrames - 1 ELSE At(segmentation, currIdx + 1)
       IN  IF p = 0
             THEN UNCHANGED << segmentation, segValues >>
             ELSE IF prev <= p /\ p <= next
                    THEN /\ segmentation' = Put(segmentation, currIdx, p)
                         /\ p # At(segmentation, currIdx) =>
                              segValues' = Put(segValues, currIdx, search'.dmin)
                         /\ currIdx' = currIdx + 1
                    ELSE /\ segmentation' = Erase(segmentation, currIdx)
                         /\ segValues' = Erase(segValues, currIdx)
                         /\ currIdx' = currIdx]_vars

\* C3: in every state Segmentation and SegValues have the same length and
\* entry k of each is the pair that was written together.
C3_Lockstep ==
  /\ Len(segmentation) = Len(segValues)
  /\ Len(recorded) = Len(segmentation)
  /\ \A k \in 1..Len(recorded) :
       recorded[k] = << segmentation[k], segValues[k] >>

\* C3 witness: the validation pass erased an entry between two others that
\* carry different BIC values.
C3_Witness ==
  /\ pc = "done"
  /\ removed > 0
  /\ Len(segmentation) >= 2
  /\ segValues[1] # segValues[Len(segValues)]

\* C4 (as claimed): the three outputs are empty when the first iteration of
\* Pass 1 begins.
C4_EmptyAtPass1 ==
  (pc = "pass1" /\ ~win.valid) => outputs = Empty3

\* the strictly first minimum of a curve, as an index from 1
FirstMinIndex(d) ==
  CHOOSE k \in 1..Len(d) :
    /\ \A j \in 1..Len(d) : d[k] <= d[j]
    /\ \A j \in 1..(k - 1) : d[j] > d[k]

\* C5 (as claimed): the validation pass run again on what it returned
\* removes nothing.
C5_ValidateIdempotent ==
  (pc = "done" /\ firstOut.done) => segmentation = firstOut.seg

StrictlyIncreasing(s) == \A k \in 1..(Len(s) - 1) : s[k] < s[k + 1]

C7_NoChangeUnlessNegative ==
  search.valid =>
    IF search.second = << >> \/ search.dmin >= 0
      THEN search.first = 0
      ELSE search.first = search.current + search.inc - 1
                            + (FirstMinIndex(search.second) - 1) * search.inc

\* C8 (as claimed): every index a Pass 1 step reads from the curve lies
\* inside the curve.
C8_CurveReadsInBounds ==
  \A k \in 1..Len(reads.idx) : 0 <= reads.idx[k] /\ reads.idx[k] < reads.len

\* C9 (as claimed): every Pass 1 window is at most size1 frames long.
C9_WindowWithinSize1 ==
  win.valid => win.hi - win.lo + 1 <= size1

\* C9 (amended): the first window and each window after a found change
\* point starts at 0, or inc1 frames past that point, and is at most size1
\* frames long; a window after one without a change point keeps the start
\* and ends size1 frames later, clipped to the last frame: it contains the
\* window before it and is longer.
C9_WindowGrowsUntilChange ==
  [][(pc = "pass1" /\ endSeg < nFrames - 1) =>
       IF win.valid /\ i = 0
         THEN /\ win'.lo = win.lo
              /\ win'.hi = Min(win.hi + size1, nFrames - 1)
              /\ win'.hi > win.hi
         ELSE /\ win'.lo = (IF win.valid THEN i + inc1 ELSE 0)
              /\ win'.lo <= win'.hi
              /\ win'.hi - win'.lo + 1 <= size1]_vars

\* C9 witness: a window that follows one without a change point and is
\* longer than size1.
C9_Witness == win.valid /\ win.grown /\ win.hi - win.lo + 1 > size1

\* C10 (as claimed): compute on a matrix of 2 frames or more does not stop
\* short of Done: once called it is in its input check, in one of the three
\* passes, or has returned.
C10_ReachesDone ==
  (runs > 0 /\ nFrames >= 2) => pc \in {"entry", "pass1", "pass2", "pass3", "done"}

\* a measure of the work compute has left: the passes in their order, and
\* inside each loop what the loop has left
Rank ==
  CASE pc = "entry" -> 4000
    [] pc = "pass1" -> 3000 + (nFrames - currSeg) * (nFrames + 1)
                            + (nFrames - 1 - endSeg)
    [] pc = "pass2" -> 2000 + 2 * Len(segmentation) - currIdx
    [] pc = "pass3" -> 1000 + 2 * Len(segmentation) - i
    [] OTHER -> 0

\* every step of compute lowers the measure, which is never negative: the
\* loops of the three passes end, and the passes run in their order
StepsLowerRank ==
  [][(pc \in {"entry", "pass1", "pass2", "pass3"}) =>
       (Rank' < Rank /\ Rank' >= 0)]_vars
====
